---- MODULE Spec2Model ----
(***************************************************************************)
(* Order lifecycle and inventory bookkeeping of the Brickhouse Brands      *)
(* backend: the FastAPI handlers of app/routers/orders.py and              *)
(* app/routers/inventory.py running as concurrent requests against one     *)
(* PostgreSQL database (READ COMMITTED), the transaction scope of          *)
(* app/database/connection.py, and the inventory batch update of           *)
(* database/demo_setup.py.                                                 *)
(*                                                                         *)
(* A request is in flight from the moment it arrives until its handler    *)
(* returns; on arrival it records the version of the row it addresses.    *)
(* The remaining fields of the request are read when the handler runs.    *)
(* A handler that issues one UPDATE runs that statement and the commit of *)
(* get_db_cursor as one step: the row lock the UPDATE takes is held until *)
(* the commit, so no other transaction can observe or change the row in   *)
(* between.  create_order issues three statements; its uncommitted row is *)
(* kept in the request until the commit.  The database clock advances     *)
(* with every transaction that writes, so a transaction reads a later     *)
(* time than every transaction that wrote before it.                      *)
(***************************************************************************)
EXTENDS Integers, Sequences, FiniteSets, TLC

(***************************************************************************)
(* Bounds of the model.                                                    *)
(***************************************************************************)
\* number of transactions begun in one behaviour (the clock's horizon)
MaxClock == 3
\* largest quantity a client asks for in an order or an inventory update
MaxQty == 2
\* cases on hand at headquarters when the service starts
HQStock == 1
\* cases on hand at the retail store when the service starts
StoreStock == 1

(***************************************************************************)
(* Program constants and reference data.                                   *)
(***************************************************************************)
\* SQL NULL / Python None in a nullable integer or timestamp column
NULL == -1
\* hq_store_id of the demo data; store 1 supplies every generated order
HQ == 1
\* the retail store of the model (store_ids[1:])
RetailStore == 2
\* the product of the model
Product == 1
\* a store manager (requested_by) and a regional manager (approved_by)
StoreManager == 1
RegionalManager == 2
\* minimum width of the digits of a generated order number (:06d)
OrdWidth == 6
\* an id that no row of stores, products or users has
Unknown == 9

\* the rows of stores, products and users (reference data, never changed)
Stores == {HQ, RetailStore}
Products == {Product}
Users == {StoreManager, RegionalManager}

Reqs == {"w1", "w2"}
WorkerRank(w) == IF w = "w1" THEN 1 ELSE 2

\* the quantities clients ask for: one case, and the largest
Quantities == {1, MaxQty}

valid_statuses == {"pending_review", "approved", "fulfilled", "cancelled"}

\* an optional request field: {} when it is not supplied, {v} when it is
Opt(S) == {{}} \cup {{v} : v \in S}
Some(o) == CHOOSE v \in o : TRUE

(***************************************************************************)
(* Order numbers: a prefix and a string of decimal digits.                 *)
(***************************************************************************)
TEMP == [prefix |-> "TEMP", digits |-> << >>]

RECURSIVE Digits(_)
\* the decimal digits of n >= 0, most significant first (Python's 'd')
Digits(n) == IF n < 10 THEN <<n>> ELSE Digits(n \div 10) \o <<n % 10>>

RECURSIVE ZeroPad(_, _)
\* left-pad with zeros to a minimum width (Python's '0w' format)
ZeroPad(ds, w) == IF Len(ds) >= w THEN ds ELSE ZeroPad(<<0>> \o ds, w)

\* a variant that leaves the placeholder in place of the generated number:
\* C12 must tell it from the code
FormatOrderNumberPlaceholder(n) == TEMP

\* f"ORD{next_number:06d}"
FormatOrderNumber(n) == [prefix |-> "ORD", digits |-> ZeroPad(Digits(n), OrdWidth)]

RECURSIVE DigitsValue(_)
\* CAST(SUBSTRING(order_number FROM 4) AS INTEGER)
DigitsValue(ds) ==
    IF ds = << >> THEN 0
    ELSE 10 * DigitsValue(SubSeq(ds, 1, Len(ds) - 1)) + ds[Len(ds)]

\* order_number ~ '^ORD[0-9]+$'
MatchesOrd(on) == on.prefix = "ORD" /\ Len(on.digits) >= 1

SetMax(S) == CHOOSE m \in S : \A x \in S : x <= m

(***************************************************************************)
(* Notes: NULL, or a text made of pieces.                                  *)
(***************************************************************************)
NullNotes == [null |-> TRUE, text |-> << >>]
Text(t) == [null |-> FALSE, text |-> t]

VARIABLES
    orders,      \* committed rows of table orders: order_id -> row
    inventory,   \* committed rows of table inventory: inventory_id -> row
    orderSeq,    \* next value of the sequence behind orders.order_id
    clock,       \* the database clock (CURRENT_TIMESTAMP of the next transaction)
    req,         \* the requests in flight: worker -> request
    response,    \* the status code of the response the last step sent (0: it sent none)
    approval,    \* history: order_id -> reserved_cases at its source before its last approval
    autoIds,     \* history: order ids allocated to creates that supplied no order_number
    abortedIds   \* history: order ids allocated to creates that were rolled back

vars == <<orders, inventory, orderSeq, clock, req, response, approval, autoIds, abortedIds>>

\* the user context of a request and the permission dependencies
VARIABLES
    is_databricks_app,  \* app_config.is_databricks_app
    http,               \* the request whose dependencies are being resolved
    user_context        \* the user context the dependencies have produced so far

authVars == <<is_databricks_app, http, user_context>>

\* no request is in the dependencies; no user context
NoContext == [present |-> FALSE, is_authenticated |-> FALSE, user_email |-> << >>]
NoHeaders == [token |-> FALSE, email |-> << >>]
IdleHttp == [pc |-> "idle", target |-> "none", headers |-> NoHeaders]

AuthIdle ==
    /\ is_databricks_app = FALSE
    /\ http = IdleHttp
    /\ user_context = NoContext

\* the connection pool of app/database/connection.py
VARIABLES
    free,      \* the connections that are in the pool
    session,   \* client -> where it is in get_db_cursor, and its connection
    txn        \* connection -> status of its transaction

poolVars == <<free, session, txn>>

\* connection_pool: the connections it may hand out
MaxConn == 2
Conns == 1..MaxConn
\* the threads that ask for a connection
Clients == {"c1", "c2", "c3"}

IdleSession == [pc |-> "idle", connection |-> 0, raised |-> FALSE]

\* init_connection_pool: every connection is in the pool, outside a transaction
PoolIdle ==
    /\ free = Conns
    /\ session = [c \in Clients |-> IdleSession]
    /\ txn = [k \in Conns |-> "idle"]

\* the read side of app/routers/orders.py
VARIABLES
    listing    \* the latest read request and its response

queryVars == <<listing>>

NoListing == [op |-> "none"]

QueryIdle == listing = NoListing

\* the batch operations of database/demo_setup.py
VARIABLES
    call       \* worker thread -> its call of a batch operation

retryVars == <<call>>

\* the threads of the ThreadPoolExecutor
Workers == {"t1", "t2"}

NoCall == [op |-> "none", pc |-> "idle", attempt |-> 0, tries |-> 0,
           tx |-> "idle", outcome |-> "none"]

RetryIdle == call = [w \in Workers |-> NoCall]

\* the row locks that concurrent batch_update_inventory_with_retry calls take
VARIABLES
    row_lock,  \* inventory key -> the worker whose transaction holds its lock
    updater    \* worker thread -> its call of batch_update_inventory_with_retry

lockVars == <<row_lock, updater>>

NoUpdater == [pc |-> "idle", statements |-> << >>, next |-> 1, attempt |-> 0]

LockIdle ==
    /\ row_lock = [k \in Products \X Stores |-> "none"]
    /\ updater = [w \in Workers |-> NoUpdater]

\* populate_dynamic_data of database/demo_setup.py
VARIABLES
    order_count,     \* status -> the number of orders to generate (command line)
    BATCH_SIZE,      \* the batch size (command line)
    main,            \* the main thread: where it is in its loops
    futures,         \* the batches submitted to the executors, and their progress
    failed_batches   \* the list the workers append failed batches to

populateVars == <<order_count, BATCH_SIZE, main, futures, failed_batches>>

\* order_configs: the statuses in the order their batches are submitted
order_configs == <<"fulfilled", "approved", "pending_review", "cancelled">>

MainStart == [pc |-> "status", status_index |-> 1, i |-> 0, order_counter |-> 1,
              retry_index |-> 1]

\* populate_dynamic_data has not been started: nothing to generate
PopulateIdle ==
    /\ order_count = [st \in valid_statuses |-> 0]
    /\ BATCH_SIZE = 1
    /\ main = MainStart
    /\ futures = << >>
    /\ failed_batches = << >>

\* the state of the parts of the program that the API's handlers leave alone
otherVars == <<authVars, poolVars, queryVars, retryVars, lockVars, populateVars>>

OtherInit ==
    /\ AuthIdle
    /\ PoolIdle
    /\ QueryIdle
    /\ RetryIdle
    /\ LockIdle
    /\ PopulateIdle


(***************************************************************************)
(* Rows.                                                                   *)
(***************************************************************************)
\* the inventory row of a (store, product) pair: UNIQUE(product_id, store_id)
InvIdOf(store, product) ==
    {i \in DOMAIN inventory :
        inventory[i].store_id = store /\ inventory[i].product_id = product}

\* the inventory rows of the store that supplies an order
SourceInv(row) == InvIdOf(row.from_store_id, row.product_id)
DestInv(row) == InvIdOf(row.to_store_id, row.product_id)

\* quantity_cases - reserved_cases
Available(i) == inventory[i].quantity_cases - inventory[i].reserved_cases

\* table t with the rows of w written over it
Written(t, w) ==
    [i \in DOMAIN t \cup DOMAIN w |-> IF i \in DOMAIN w THEN w[i] ELSE t[i]]

NoRows == [i \in {} |-> NULL]
OneRow(i, row) == [j \in {i} |-> row]

(***************************************************************************)
(* get_db_cursor: the handler's statements run in one transaction, which   *)
(* is committed when the with-block is left normally and rolled back when  *)
(* it is left by an exception (HTTPException included).                    *)
(***************************************************************************)
CursorExit(committed, written, raised) ==
    IF raised THEN committed ELSE written

(***************************************************************************)
(* The SET clauses of the handlers' UPDATE statements.                     *)
(***************************************************************************)
\* a variant whose UPDATE also rewrites order_date: C15 must tell it from the
\* code
StatusUpdateRowRedated(row, status, approved_by, now) ==
    [row EXCEPT !.order_status = status, !.order_date = now, !.version = @ + 1]

\* update_order_status: the three UPDATE variants
StatusUpdateRow(row, status, approved_by, now) ==
    IF status = "approved"
        THEN [row EXCEPT !.order_status = status, !.approved_by = approved_by,
                         !.approved_date = now, !.version = @ + 1]
    ELSE IF status = "fulfilled"
        THEN [row EXCEPT !.order_status = status, !.fulfilled_date = now,
                         !.version = @ + 1]
    ELSE [row EXCEPT !.order_status = status, !.version = @ + 1]

\* update_order_status: WHERE order_id = %s
StatusUpdateWhere(row) == TRUE

\* a variant in which approval reserves the order's quantity at the source
\* store and nothing releases it: C6 must tell it from the code
StatusUpdateInventoryReserves(inv, row, status) ==
    IF status = "approved"
        THEN [i \in DOMAIN inv |->
                IF inv[i].store_id = row.from_store_id /\ inv[i].product_id = row.product_id
                    THEN [inv[i] EXCEPT !.reserved_cases = @ + row.quantity_cases,
                                        !.version = @ + 1]
                    ELSE inv[i]]
        ELSE inv

\* update_order_status issues no statement on table inventory
StatusUpdateInventory(inv, row, status) == inv

\* update_order: the SET list built from the supplied fields
UpdateOrderRow(row, quantity_cases, notes) ==
    [row EXCEPT
        !.quantity_cases = IF quantity_cases = {} THEN @ ELSE Some(quantity_cases),
        !.notes = IF notes = {} THEN @ ELSE Text(Some(notes)),
        !.version = @ + 1]

\* a variant without the status condition: C16 must tell it from the code
ModifiableWhereAny(row) == TRUE

\* update_order and cancel_order: AND order_status IN ('pending_review', 'approved')
ModifiableWhere(row) == row.order_status \in {"pending_review", "approved"}

\* update_order issues no statement on table inventory
UpdateOrderInventory(inv, row, quantity_cases) == inv

\* a variant that overwrites the notes with the reason: C18 must tell it from
\* the code
CancelRowOverwrites(row, reason) ==
    [row EXCEPT !.order_status = "cancelled",
                !.notes = Text(<<"Cancellation reason: ", reason>>),
                !.version = @ + 1]

\* cancel_order: SET order_status, notes = CASE ... END, version
CancelRow(row, reason) ==
    [row EXCEPT
        !.order_status = "cancelled",
        !.notes = IF row.notes.null \/ row.notes.text = << >>
                    THEN Text(<<"Cancellation reason: ", reason>>)
                    ELSE Text(row.notes.text \o <<"\n\nCancellation reason: ", reason>>),
        !.version = @ + 1]

\* cancel_order issues no statement on table inventory
CancelInventory(inv, row) == inv

\* update_inventory: SET <supplied fields>, last_updated, version = version + 1
UpdateInventoryRow(row, quantity_cases, reserved_cases) ==
    [row EXCEPT
        !.quantity_cases = IF quantity_cases = {} THEN @ ELSE Some(quantity_cases),
        !.reserved_cases = IF reserved_cases = {} THEN @ ELSE Some(reserved_cases),
        !.version = @ + 1]

(***************************************************************************)
(* Requests.                                                               *)
(***************************************************************************)
NotSeen == [version |-> 0, status |-> "none"]

IdleReq ==
    [pc |-> "idle", op |-> "none", id |-> 0, status |-> "none",
     seen |-> NotSeen, pending |-> NoRows, next_number |-> 0]

\* a request may arrive while the clock's horizon leaves room for its write
CanCall ==
    clock + Cardinality({w \in Reqs : req[w].pc = "called"}) <= MaxClock

\* a request is served by the first worker that is free
FreeWorker(r) ==
    /\ req[r].pc = "idle"
    /\ \A w \in Reqs : req[w].pc = "idle" => WorkerRank(r) <= WorkerRank(w)

\* what a client can know of an order when its request arrives
SeenOrder(id) ==
    IF id \in DOMAIN orders
        THEN [version |-> orders[id].version, status |-> orders[id].order_status]
        ELSE NotSeen

\* what a client can know of an inventory row when its request arrives
SeenInventory(id) ==
    IF id \in DOMAIN inventory
        THEN [version |-> inventory[id].version, status |-> "none"]
        ELSE NotSeen

\* the handler returns: the worker is free again
Respond(r, code) ==
    /\ req' = [req EXCEPT ![r] = IdleReq]
    /\ response' = code

\* the ids a client asks about: every committed row and one id that is absent
OrderTargets == DOMAIN orders \cup {orderSeq}
InventoryTargets == DOMAIN inventory \cup {Len(inventory) + 1}

\* history of approvals: a row of inventory changed by a step that is not the
\* approval or cancellation of order o no longer counts for the round trip of
\* the orders it supplies
Touched(appr, inv2, o) ==
    [x \in DOMAIN appr |->
        IF x # o /\ inventory[appr[x].source] # inv2[appr[x].source]
            THEN [appr[x] EXCEPT !.clean = FALSE]
            ELSE appr[x]]

(***************************************************************************)
(* The state after provisioning: populate_dynamic_data truncates orders    *)
(* and inventory, restarts their sequences and inserts one inventory row   *)
(* per (product, store), headquarters first, with nothing reserved.        *)
(***************************************************************************)
InventoryRow(product, store, quantity) ==
    [product_id |-> product, store_id |-> store, quantity_cases |-> quantity,
     reserved_cases |-> 0, version |-> 1]

\* the tables after the initial inventory is inserted, and no request yet
StoreInit ==
    /\ orders = NoRows
    /\ inventory = <<InventoryRow(Product, HQ, HQStock),
                     InventoryRow(Product, RetailStore, StoreStock)>>
    /\ orderSeq = 1
    /\ clock = 1
    /\ req = [r \in Reqs |-> IdleReq]
    /\ response = 0
    /\ approval = NoRows
    /\ autoIds = {}
    /\ abortedIds = {}

Init ==
    /\ StoreInit
    /\ OtherInit

(***************************************************************************)
(* PUT /orders/{order_id}/status                                           *)
(***************************************************************************)
UpdateOrderStatusCall(r) ==
    /\ UNCHANGED otherVars
    /\ FreeWorker(r)
    /\ CanCall
    /\ \E id \in OrderTargets, status \in valid_statuses \cup {"shipped"} :
        \* of the requests for an order that does not exist, two are enough
        /\ status \notin valid_statuses => id = orderSeq
        /\ id = orderSeq => status \in {"approved", "shipped"}
        /\ req' = [req EXCEPT ![r] =
                    [IdleReq EXCEPT !.pc = "called", !.op = "update_order_status",
                                    !.id = id, !.status = status,
                                    !.seen = SeenOrder(id)]]
    /\ response' = 0
    /\ UNCHANGED <<orders, inventory, orderSeq, clock, approval, autoIds, abortedIds>>

UpdateOrderStatus(r) ==
    /\ UNCHANGED otherVars
    /\ req[r].pc = "called"
    /\ req[r].op = "update_order_status"
    /\ LET a == req[r]
           found == a.id \in DOMAIN orders /\ StatusUpdateWhere(orders[a.id])
       IN
       IF a.status \notin valid_statuses
       THEN \* 400 before any statement is executed
            /\ Respond(r, 400)
            /\ UNCHANGED <<orders, inventory, orderSeq, clock, approval,
                           autoIds, abortedIds>>
       ELSE IF ~found
       THEN \* the UPDATE returns no row: 404, rollback
            /\ orders' = CursorExit(orders, orders, TRUE)
            /\ inventory' = CursorExit(inventory, inventory, TRUE)
            /\ Respond(r, 404)
            /\ UNCHANGED <<orderSeq, clock, approval, autoIds, abortedIds>>
       ELSE \E approved_by \in IF a.status = "approved"
                                  THEN {NULL, RegionalManager} ELSE {NULL} :
            LET row == orders[a.id]
                inv2 == StatusUpdateInventory(inventory, row, a.status)
                src == SourceInv(row)
            IN
            /\ orders' = CursorExit(orders,
                            [orders EXCEPT ![a.id] =
                                StatusUpdateRow(row, a.status, approved_by, clock)],
                            FALSE)
            /\ inventory' = CursorExit(inventory, inv2, FALSE)
            /\ clock' = clock + 1
            /\ Respond(r, 200)
            /\ approval' =
                 IF a.status = "approved" /\ src # {}
                 THEN Written(Touched(approval, inv2, a.id),
                              OneRow(a.id, [source |-> Some(src),
                                            reserved |-> inventory[Some(src)].reserved_cases,
                                            clean |-> TRUE]))
                 ELSE Touched(approval, inv2,
                              IF a.status = "cancelled" THEN a.id ELSE 0)
            /\ UNCHANGED <<orderSeq, autoIds, abortedIds>>

(***************************************************************************)
(* PUT /orders/{order_id}                                                  *)
(***************************************************************************)
UpdateOrderCall(r) ==
    /\ UNCHANGED otherVars
    /\ FreeWorker(r)
    /\ CanCall
    /\ \E id \in OrderTargets :
        req' = [req EXCEPT ![r] =
                    [IdleReq EXCEPT !.pc = "called", !.op = "update_order",
                                    !.id = id, !.seen = SeenOrder(id)]]
    /\ response' = 0
    /\ UNCHANGED <<orders, inventory, orderSeq, clock, approval, autoIds, abortedIds>>

UpdateOrder(r) ==
    /\ UNCHANGED otherVars
    /\ req[r].pc = "called"
    /\ req[r].op = "update_order"
    /\ \E quantity_cases \in Opt(Quantities), notes \in Opt({<<"note of", r>>}) :
       LET a == req[r]
           found == a.id \in DOMAIN orders /\ ModifiableWhere(orders[a.id])
       IN
       IF quantity_cases = {} /\ notes = {}
       THEN \* "No fields to update": 400 before any statement is executed
            /\ Respond(r, 400)
            /\ UNCHANGED <<orders, inventory, orderSeq, clock, approval,
                           autoIds, abortedIds>>
       ELSE IF ~found
       THEN /\ orders' = CursorExit(orders, orders, TRUE)
            /\ inventory' = CursorExit(inventory, inventory, TRUE)
            /\ Respond(r, 404)
            /\ UNCHANGED <<orderSeq, clock, approval, autoIds, abortedIds>>
       ELSE LET row == orders[a.id]
                inv2 == UpdateOrderInventory(inventory, row, quantity_cases)
            IN
            /\ orders' = CursorExit(orders,
                            [orders EXCEPT ![a.id] =
                                UpdateOrderRow(row, quantity_cases, notes)],
                            FALSE)
            /\ inventory' = CursorExit(inventory, inv2, FALSE)
            /\ clock' = clock + 1
            /\ Respond(r, 200)
            /\ approval' = Touched(approval, inv2, 0)
            /\ UNCHANGED <<orderSeq, autoIds, abortedIds>>

(***************************************************************************)
(* PUT /orders/{order_id}/cancel                                           *)
(***************************************************************************)
CancelOrderCall(r) ==
    /\ UNCHANGED otherVars
    /\ FreeWorker(r)
    /\ CanCall
    /\ \E id \in OrderTargets :
        req' = [req EXCEPT ![r] =
                    [IdleReq EXCEPT !.pc = "called", !.op = "cancel_order",
                                    !.id = id, !.seen = SeenOrder(id)]]
    /\ response' = 0
    /\ UNCHANGED <<orders, inventory, orderSeq, clock, approval, autoIds, abortedIds>>

CancelOrder(r) ==
    /\ UNCHANGED otherVars
    /\ req[r].pc = "called"
    /\ req[r].op = "cancel_order"
    /\ LET a == req[r]
           found == a.id \in DOMAIN orders /\ ModifiableWhere(orders[a.id])
       IN
       IF ~found
       THEN /\ orders' = CursorExit(orders, orders, TRUE)
            /\ inventory' = CursorExit(inventory, inventory, TRUE)
            /\ Respond(r, 404)
            /\ UNCHANGED <<orderSeq, clock, approval, autoIds, abortedIds>>
       ELSE LET row == orders[a.id]
                inv2 == CancelInventory(inventory, row)
            IN
            /\ orders' = CursorExit(orders,
                            [orders EXCEPT ![a.id] = CancelRow(row, "out of stock")],
                            FALSE)
            /\ inventory' = CursorExit(inventory, inv2, FALSE)
            /\ clock' = clock + 1
            /\ Respond(r, 200)
            /\ approval' = Touched(approval, inv2, a.id)
            /\ UNCHANGED <<orderSeq, autoIds, abortedIds>>


(***************************************************************************)
(* POST /orders                                                            *)
(***************************************************************************)
\* the row of the INSERT; the columns it does not name take their defaults
NewOrderRow(order_number, to_store_id, product_id, quantity_cases, requested_by, approved_by, now) ==
    [order_number |-> order_number, from_store_id |-> HQ,
     to_store_id |-> to_store_id, product_id |-> product_id,
     quantity_cases |-> quantity_cases,
     order_status |-> "pending_review", requested_by |-> requested_by,
     approved_by |-> approved_by, order_date |-> now,
     approved_date |-> NULL, fulfilled_date |-> NULL,
     notes |-> NullNotes, version |-> 1]

\* order numbers of rows other transactions have written and not yet committed
UncommittedNumbers(r) ==
    UNION {{req[w].pending[i].order_number : i \in DOMAIN req[w].pending} :
              w \in Reqs \ {r}}

CommittedNumbers == {orders[o].order_number : o \in DOMAIN orders}

\* the order numbers clients supply
SuppliedNumbers == {TEMP, FormatOrderNumber(2)}

\* the bodies of POST /orders: the well-formed ones, with and without an
\* order number, and one for each way of being invalid
OrderCreate ==
    LET ValidOrder(order_number, quantity_cases) ==
            [order_number |-> order_number, to_store_id |-> RetailStore,
             product_id |-> Product, quantity_cases |-> quantity_cases,
             requested_by |-> StoreManager]
    IN {ValidOrder(n, q) : n \in Opt(SuppliedNumbers), q \in Quantities}
       \cup {[ValidOrder({}, 1) EXCEPT !.quantity_cases = 0],
              [ValidOrder({}, 1) EXCEPT !.to_store_id = Unknown],
              [ValidOrder({}, 1) EXCEPT !.product_id = Unknown],
              [ValidOrder({}, 1) EXCEPT !.requested_by = Unknown]}

\* orders.to_store_id REFERENCES stores, product_id REFERENCES products,
\* requested_by REFERENCES users: checked at the end of the INSERT
ForeignKeysHold(row) ==
    /\ row.to_store_id \in Stores
    /\ row.product_id \in Products
    /\ row.requested_by \in Users

\* the request arrives and its INSERT runs, with 'TEMP' or with the supplied
\* order number
CreateOrderInsert(r) ==
    /\ UNCHANGED otherVars
    /\ FreeWorker(r)
    /\ CanCall
    /\ \E order_data \in OrderCreate :
       LET auto == order_data.order_number = {}
           number == IF auto THEN TEMP ELSE Some(order_data.order_number)
           row == NewOrderRow(number, order_data.to_store_id, order_data.product_id,
                              order_data.quantity_cases, order_data.requested_by,
                              NULL, clock)
       IN
       \* UNIQUE(order_number): wait for the transaction that holds the number
       /\ number \notin UncommittedNumbers(r)
       /\ clock' = clock + 1
       /\ orderSeq' = orderSeq + 1
       /\ inventory' = inventory
       /\ approval' = approval
       /\ IF number \in CommittedNumbers \/ ~ForeignKeysHold(row)
          THEN \* unique or foreign key violation: 500, rollback
               /\ orders' = CursorExit(orders, orders, TRUE)
               /\ Respond(r, 500)
               /\ autoIds' = autoIds
               /\ abortedIds' = abortedIds \cup {orderSeq}
          ELSE IF auto
          THEN /\ req' = [req EXCEPT ![r] =
                            [IdleReq EXCEPT !.pc = "inserted", !.op = "create_order",
                                            !.id = orderSeq,
                                            !.pending = OneRow(orderSeq, row)]]
               /\ autoIds' = autoIds \cup {orderSeq}
               /\ response' = 0
               /\ UNCHANGED <<orders, abortedIds>>
          ELSE /\ orders' = CursorExit(orders, Written(orders, OneRow(orderSeq, row)),
                                       FALSE)
               /\ Respond(r, 200)
               /\ UNCHANGED <<autoIds, abortedIds>>

\* SELECT COALESCE(MAX(CAST(SUBSTRING(order_number FROM 4) AS INTEGER)) + 1, order_id)
NextNumber(visible, order_id) ==
    LET numbered == {o \in DOMAIN visible : MatchesOrd(visible[o].order_number)}
    IN IF numbered = {}
       THEN order_id
       ELSE SetMax({DigitsValue(visible[o].order_number.digits) : o \in numbered}) + 1

CreateOrderNextNumber(r) ==
    /\ UNCHANGED otherVars
    /\ req[r].pc = "inserted"
    /\ req' = [req EXCEPT ![r].pc = "numbered",
                          ![r].next_number =
                              NextNumber(Written(orders, req[r].pending), req[r].id)]
    /\ response' = 0
    /\ UNCHANGED <<orders, inventory, orderSeq, clock, approval, autoIds, abortedIds>>

\* UPDATE orders SET order_number = proper_order_number, then the commit
CreateOrderSetNumber(r) ==
    /\ UNCHANGED otherVars
    /\ req[r].pc = "numbered"
    /\ LET a == req[r]
           proper_order_number == FormatOrderNumber(a.next_number)
           written == Written(orders,
                         OneRow(a.id, [a.pending[a.id] EXCEPT
                                          !.order_number = proper_order_number]))
       IN
       IF proper_order_number \in CommittedNumbers
       THEN \* unique violation: 500, rollback
            /\ orders' = CursorExit(orders, Written(orders, a.pending), TRUE)
            /\ Respond(r, 500)
            /\ abortedIds' = abortedIds \cup {a.id}
       ELSE /\ orders' = CursorExit(orders, written, FALSE)
            /\ Respond(r, 200)
            /\ abortedIds' = abortedIds
    /\ UNCHANGED <<inventory, orderSeq, clock, approval, autoIds>>

(***************************************************************************)
(* A statement of a request in flight fails in the database (connection    *)
(* lost, timeout): the handler turns the exception into a 500 and          *)
(* get_db_cursor rolls the transaction back.                               *)
(***************************************************************************)
DbError(r) ==
    /\ UNCHANGED otherVars
    /\ req[r].pc \in {"called", "inserted", "numbered"}
    /\ orders' = CursorExit(orders, Written(orders, req[r].pending), TRUE)
    /\ inventory' = CursorExit(inventory, inventory, TRUE)
    /\ Respond(r, 500)
    /\ abortedIds' = abortedIds \cup DOMAIN req[r].pending
    /\ UNCHANGED <<orderSeq, clock, approval, autoIds>>

(***************************************************************************)
(* PUT /inventory/{inventory_id}                                           *)
(***************************************************************************)
UpdateInventoryCall(r) ==
    /\ UNCHANGED otherVars
    /\ FreeWorker(r)
    /\ CanCall
    /\ \E id \in InventoryTargets :
        req' = [req EXCEPT ![r] =
                    [IdleReq EXCEPT !.pc = "called", !.op = "update_inventory",
                                    !.id = id, !.seen = SeenInventory(id)]]
    /\ response' = 0
    /\ UNCHANGED <<orders, inventory, orderSeq, clock, approval, autoIds, abortedIds>>

UpdateInventory(r) ==
    /\ UNCHANGED otherVars
    /\ req[r].pc = "called"
    /\ req[r].op = "update_inventory"
    /\ \E quantity_cases \in Opt({0}), reserved_cases \in Opt({MaxQty}) :
       LET a == req[r] IN
       IF quantity_cases = {} /\ reserved_cases = {}
       THEN \* "No fields to update": 400 before a connection is taken
            /\ Respond(r, 400)
            /\ UNCHANGED <<orders, inventory, orderSeq, clock, approval,
                           autoIds, abortedIds>>
       ELSE IF a.id \notin DOMAIN inventory
       THEN /\ inventory' = CursorExit(inventory, inventory, TRUE)
            /\ Respond(r, 404)
            /\ UNCHANGED <<orders, orderSeq, clock, approval, autoIds, abortedIds>>
       ELSE LET inv2 == [inventory EXCEPT ![a.id] =
                            UpdateInventoryRow(@, quantity_cases, reserved_cases)]
            IN
            /\ inventory' = CursorExit(inventory, inv2, FALSE)
            /\ clock' = clock + 1
            /\ Respond(r, 200)
            /\ approval' = Touched(approval, inv2, 0)
            /\ UNCHANGED <<orders, orderSeq, autoIds, abortedIds>>

(***************************************************************************)
(* database/demo_setup.py: the inventory updates of a generated order and  *)
(* batch_update_inventory_with_retry, which applies them and commits.      *)
(***************************************************************************)
\* generate_order_batch: the inventory_updates of one order of a status
GeneratedInventoryUpdates(order_status, quantity, product_id, to_store_id) ==
    IF order_status = "fulfilled"
        THEN << [type |-> "quantity", change |-> 0 - quantity,
                 product_id |-> product_id, store_id |-> HQ],
                [type |-> "quantity", change |-> quantity,
                 product_id |-> product_id, store_id |-> to_store_id] >>
    ELSE IF order_status = "approved"
        THEN << [type |-> "reserved", change |-> quantity,
                 product_id |-> product_id, store_id |-> HQ] >>
    ELSE << >>

\* key=lambda x: (x["product_id"], x["store_id"])
KeyLess(a, b) ==
    \/ a.product_id < b.product_id
    \/ a.product_id = b.product_id /\ a.store_id < b.store_id

RECURSIVE InsertByKey(_, _)
InsertByKey(u, sorted) ==
    IF sorted = << >> THEN <<u>>
    ELSE IF KeyLess(u, Head(sorted)) THEN <<u>> \o sorted
    ELSE <<Head(sorted)>> \o InsertByKey(u, Tail(sorted))

RECURSIVE SortedByKey(_)
\* sorted(inventory_updates, key=...): stable, ascending
SortedByKey(updates) ==
    IF updates = << >> THEN << >>
    ELSE InsertByKey(updates[Len(updates)],
                     SortedByKey(SubSeq(updates, 1, Len(updates) - 1)))

\* UPDATE inventory SET <column> = <column> + %s WHERE product_id = %s AND store_id = %s
BatchUpdateRow(row, u) ==
    IF row.product_id # u.product_id \/ row.store_id # u.store_id THEN row
    ELSE IF u.type = "quantity"
        THEN [row EXCEPT !.quantity_cases = @ + u.change]
        ELSE [row EXCEPT !.reserved_cases = @ + u.change]

RECURSIVE ExecuteBatch(_, _)
ExecuteBatch(inv, updates) ==
    IF updates = << >> THEN inv
    ELSE ExecuteBatch([i \in DOMAIN inv |-> BatchUpdateRow(inv[i], Head(updates))],
                      Tail(updates))

\* one attempt of batch_update_inventory_with_retry that meets no deadlock:
\* the quantity updates in key order, then the reserved updates, then the commit
batch_update_inventory(inv, inventory_updates) ==
    LET sorted == SortedByKey(inventory_updates)
        quantity_updates == SelectSeq(sorted, LAMBDA u : u.type = "quantity")
        reserved_updates == SelectSeq(sorted, LAMBDA u : u.type = "reserved")
    IN ExecuteBatch(ExecuteBatch(inv, quantity_updates), reserved_updates)

BatchUpdateInventory ==
    /\ UNCHANGED otherVars
    /\ CanCall
    /\ \E order_status \in {"fulfilled", "approved"}, quantity \in Quantities :
        LET inv2 == batch_update_inventory(inventory,
                        GeneratedInventoryUpdates(order_status, quantity,
                                                  Product, RetailStore))
        IN /\ inventory' = inv2
           /\ approval' = Touched(approval, inv2, 0)
    /\ clock' = clock + 1
    /\ response' = 0
    /\ UNCHANGED <<orders, orderSeq, req, autoIds, abortedIds>>

(***************************************************************************)
(* The system.                                                             *)
(***************************************************************************)
Next ==
    \/ \E r \in Reqs : CreateOrderInsert(r)
    \/ \E r \in Reqs : CreateOrderNextNumber(r)
    \/ \E r \in Reqs : CreateOrderSetNumber(r)
    \/ \E r \in Reqs : UpdateOrderStatusCall(r)
    \/ \E r \in Reqs : UpdateOrderStatus(r)
    \/ \E r \in Reqs : UpdateOrderCall(r)
    \/ \E r \in Reqs : UpdateOrder(r)
    \/ \E r \in Reqs : CancelOrderCall(r)
    \/ \E r \in Reqs : CancelOrder(r)
    \/ \E r \in Reqs : UpdateInventoryCall(r)
    \/ \E r \in Reqs : UpdateInventory(r)
    \/ \E r \in Reqs : DbError(r)
    \/ BatchUpdateInventory

Spec == Init /\ [][Next]_vars


(***************************************************************************)
(* Properties.                                                             *)
(***************************************************************************)
\* the edges of the order state machine
LegalEdge(from, to) ==
    <<from, to>> \in {<<"pending_review", "approved">>,
                      <<"pending_review", "cancelled">>,
                      <<"approved", "fulfilled">>,
                      <<"approved", "cancelled">>}

\* this step is the handler of request r running to its response
Runs(r, op) ==
    /\ req[r].pc = "called"
    /\ req[r].op = op
    /\ req'[r].pc = "idle"

\* C1: an order's status changes only along pending_review->approved,
\* pending_review->cancelled, approved->fulfilled, approved->cancelled; a
\* status update that asks for any other change is rejected and leaves the
\* order (status, dates, version) unchanged.
C1_StatusFollowsGraph ==
    [][/\ \A o \in DOMAIN orders :
            orders'[o].order_status # orders[o].order_status
                => LegalEdge(orders[o].order_status, orders'[o].order_status)
       /\ \A r \in Reqs :
            (/\ Runs(r, "update_order_status")
             /\ req[r].id \in DOMAIN orders
             /\ ~LegalEdge(orders[req[r].id].order_status, req[r].status))
                => (response' # 200 /\ orders'[req[r].id] = orders[req[r].id])
      ]_vars

\* C2: every inventory record satisfies 0 <= reserved_cases <= quantity_cases
\* in every reachable state.
C2_ReservedWithinQuantity ==
    \A i \in DOMAIN inventory :
        /\ 0 <= inventory[i].reserved_cases
        /\ inventory[i].reserved_cases <= inventory[i].quantity_cases

\* C3: of two concurrent Approve requests for the same pending_review order
\* only one succeeds: the request that finds the order already approved by
\* the other (one version later than the one it arrived at) is rejected and
\* changes nothing, so the version rises by exactly 1 in total.
C3_OneApproveWins ==
    [][\A r \in Reqs :
        (/\ Runs(r, "update_order_status")
         /\ req[r].status = "approved"
         /\ req[r].id \in DOMAIN orders
         /\ req[r].seen.status = "pending_review"
         /\ orders[req[r].id].order_status = "approved"
         /\ orders[req[r].id].version = req[r].seen.version + 1)
            => (response' # 200 /\ orders'[req[r].id] = orders[req[r].id])
      ]_vars

\* C4: approving an order whose quantity exceeds the available stock
\* (quantity_cases - reserved_cases) of the supplying store fails; the order
\* stays in pending_review at its version and no inventory record changes.
C4_ApproveNeedsStock ==
    [][\A r \in Reqs :
        (/\ Runs(r, "update_order_status")
         /\ req[r].status = "approved"
         /\ req[r].id \in DOMAIN orders
         /\ orders[req[r].id].order_status = "pending_review"
         /\ \E i \in SourceInv(orders[req[r].id]) :
                Available(i) < orders[req[r].id].quantity_cases)
            => (/\ response' # 200
                /\ orders'[req[r].id] = orders[req[r].id]
                /\ inventory' = inventory)
      ]_vars

\* C5: fulfilling an approved order of quantity q takes q from the source's
\* quantity_cases and reserved_cases and adds q to the destination's
\* quantity_cases in the step that sets the status to fulfilled, and
\* approved_date is earlier than fulfilled_date.
C5_FulfilMovesStock ==
    [][\A r \in Reqs :
        (/\ Runs(r, "update_order_status")
         /\ req[r].status = "fulfilled"
         /\ req[r].id \in DOMAIN orders
         /\ orders[req[r].id].order_status = "approved"
         /\ response' = 200)
            => LET row == orders[req[r].id]
                   q == row.quantity_cases
               IN /\ orders'[req[r].id].order_status = "fulfilled"
                  /\ orders'[req[r].id].approved_date
                        < orders'[req[r].id].fulfilled_date
                  /\ \A i \in SourceInv(row) :
                        /\ inventory'[i].quantity_cases
                              = inventory[i].quantity_cases - q
                        /\ inventory'[i].reserved_cases
                              = inventory[i].reserved_cases - q
                  /\ \A i \in DestInv(row) :
                        inventory'[i].quantity_cases
                            = inventory[i].quantity_cases + q
      ]_vars

\* C6: approving an order and then cancelling it leaves reserved_cases of the
\* source store's record at the value it had before the approval, when no
\* other operation wrote that record since.
C6_ApproveCancelRoundTrip ==
    \A o \in DOMAIN approval :
        (/\ o \in DOMAIN orders
         /\ orders[o].order_status = "cancelled"
         /\ approval[o].clean)
            => inventory[approval[o].source].reserved_cases = approval[o].reserved

\* an order that was created, approved and then cancelled by cancel_order
C6_Witness ==
    \E o \in DOMAIN approval :
        /\ o \in DOMAIN orders
        /\ orders[o].order_status = "cancelled"
        /\ orders[o].approved_date # NULL
        /\ orders[o].version = 3
        /\ orders[o].notes = Text(<<"Cancellation reason: ", "out of stock">>)
        /\ approval[o].clean

\* C7: once an order is fulfilled or cancelled, no operation changes any of
\* its fields, version included.
C7_TerminalOrdersFrozen ==
    [][\A o \in DOMAIN orders :
        orders[o].order_status \in {"fulfilled", "cancelled"}
            => orders'[o] = orders[o]
      ]_vars

\* C8: every mutation of an order or an inventory record raises its version
\* by exactly 1, and a step that answers with an error changes no version.
C8_VersionStepsByOne ==
    [][/\ \A o \in DOMAIN orders :
            orders'[o] # orders[o] => orders'[o].version = orders[o].version + 1
       /\ \A i \in DOMAIN inventory :
            inventory'[i] # inventory[i]
                => inventory'[i].version = inventory[i].version + 1
       /\ response' \in {400, 404, 500}
            => /\ \A o \in DOMAIN orders : orders'[o].version = orders[o].version
               /\ \A i \in DOMAIN inventory :
                    inventory'[i].version = inventory[i].version
      ]_vars

\* the row a request addresses
TargetVersion(r) ==
    IF req[r].op = "update_inventory"
        THEN (IF req[r].id \in DOMAIN inventory
                THEN inventory[req[r].id].version ELSE 0)
        ELSE (IF req[r].id \in DOMAIN orders
                THEN orders[req[r].id].version ELSE 0)

\* C9: a mutation that is based on a stale version of an order or inventory
\* record (the record has been changed since the request arrived) is
\* rejected and changes nothing: of two concurrent updates based on the same
\* version at most one is applied.
C9_StaleMutationRejected ==
    [][\A r \in Reqs :
        (/\ \E op \in {"update_order_status", "update_order", "cancel_order",
                       "update_inventory"} : Runs(r, op)
         /\ req[r].seen.version # 0
         /\ TargetVersion(r) # req[r].seen.version)
            => (response' # 200 /\ orders' = orders /\ inventory' = inventory)
      ]_vars

\* the order ids of rows written by transactions still in flight
InFlightIds == UNION {DOMAIN req[r].pending : r \in Reqs}

\* C10: the writes of a request are committed together or not at all (no row
\* of a create_order that was rolled back or is still in flight is
\* committed), and consequently no committed order carries the placeholder
\* order number 'TEMP'.
C10_NoCommittedTemp ==
    /\ abortedIds \cap DOMAIN orders = {}
    /\ InFlightIds \cap DOMAIN orders = {}
    /\ \A o \in DOMAIN orders : orders[o].order_number # TEMP

\* an order row that this step commits and that did not exist before
Created(o) == o \in DOMAIN orders' /\ o \notin DOMAIN orders

\* C11: a Create that supplied no order_number never fails on the unique
\* constraint: when the candidate number it computed is already taken at the
\* time it is written, the request still succeeds, with a fresh number that
\* differs from every other order's.
C11_GeneratedNumberNeverCollides ==
    [][\A r \in Reqs :
        (/\ req[r].pc = "numbered"
         /\ req'[r].pc = "idle"
         /\ FormatOrderNumber(req[r].next_number) \in CommittedNumbers)
            => /\ response' = 200
               /\ Created(req[r].id)
               /\ MatchesOrd(orders'[req[r].id].order_number)
               /\ orders'[req[r].id].order_number \notin CommittedNumbers
      ]_vars

\* C12: every order a Create commits is in pending_review at version 1 with
\* no approval and no fulfilment timestamp; when no order_number was
\* supplied its number is ORD followed by digits and differs from the number
\* of every order that existed before; order numbers are pairwise distinct.
C12_CreateYieldsPendingOrder ==
    [][/\ \A o \in DOMAIN orders' :
            Created(o) =>
                /\ orders'[o].order_status = "pending_review"
                /\ orders'[o].version = 1
                /\ orders'[o].approved_date = NULL
                /\ orders'[o].fulfilled_date = NULL
                /\ o \in autoIds' =>
                    /\ MatchesOrd(orders'[o].order_number)
                    /\ orders'[o].order_number \notin CommittedNumbers
       /\ \A o1, o2 \in DOMAIN orders' :
            o1 # o2 => orders'[o1].order_number # orders'[o2].order_number
      ]_vars

\* an order with a supplied number exists, and a Create without order_number
\* was given the number after it
C12_Witness ==
    \E o1, o2 \in DOMAIN orders :
        /\ o1 \notin autoIds
        /\ o2 \in autoIds
        /\ orders[o1].order_number = FormatOrderNumber(2)
        /\ orders[o2].order_number = FormatOrderNumber(3)
        /\ orders[o2].order_status = "pending_review"
        /\ orders[o2].version = 1

\* C13: a Create with quantity <= 0, or naming a destination store, product
\* or requester that does not exist, creates no order and is answered with a
\* client error: every order a Create commits has a positive quantity and
\* existing references, and a Create whose INSERT fails for another reason
\* than a taken order number is not answered with a server error.
C13_CreateValidates ==
    [][/\ \A o \in DOMAIN orders' :
            Created(o) =>
                /\ orders'[o].quantity_cases > 0
                /\ ForeignKeysHold(orders'[o])
       /\ (/\ orderSeq' # orderSeq
           /\ CommittedNumbers \cap (SuppliedNumbers \cup {TEMP}) = {})
            => response' \notin {500}
      ]_vars

\* C14: in every reachable state, an order's fulfilled_date is set exactly
\* when its status is fulfilled, and its approved_date is set exactly when
\* the order has been in status approved at some point.
C14_DatesMatchHistory ==
    \A o \in DOMAIN orders :
        /\ orders[o].fulfilled_date # NULL <=> orders[o].order_status = "fulfilled"
        /\ orders[o].approved_date # NULL <=> o \in DOMAIN approval

\* the columns of an order that no operation may change after creation
Identity(row) ==
    <<row.to_store_id, row.product_id, row.from_store_id, row.requested_by,
      row.order_number, row.order_date>>

\* C15: no step removes a committed order or changes its destination store,
\* product, source store, requester, order number or order date.
C15_IdentityIsImmutable ==
    [][\A o \in DOMAIN orders :
        /\ o \in DOMAIN orders'
        /\ Identity(orders'[o]) = Identity(orders[o])
      ]_vars

\* an order that was approved and whose fields were updated since it was
\* created at the first tick of the clock
C15_Witness ==
    \E o \in DOMAIN orders :
        /\ orders[o].version = 3
        /\ orders[o].order_status = "approved"
        /\ orders[o].order_date = 1
        /\ orders[o].approved_date > 1
        /\ ~orders[o].notes.null

\* the columns update_order never writes
NotUpdatable(row) ==
    <<Identity(row), row.order_status, row.approved_by, row.approved_date,
      row.fulfilled_date>>

\* C16: update_order succeeds only on an order that is in pending_review or
\* approved when its UPDATE runs; on success it raises version by 1 and
\* changes nothing else but the supplied ones of quantity and notes; on a
\* fulfilled, cancelled or absent order, or with no field supplied, it fails
\* and changes no order and no inventory record.
C16_UpdateFieldsGuarded ==
    [][\A r \in Reqs :
        Runs(r, "update_order") =>
            LET id == req[r].id IN
            /\ inventory' = inventory
            /\ \A o \in DOMAIN orders \ {id} : orders'[o] = orders[o]
            /\ DOMAIN orders' = DOMAIN orders
            /\ response' = 200 =>
                /\ id \in DOMAIN orders
                /\ orders[id].order_status \in {"pending_review", "approved"}
                /\ orders'[id].version = orders[id].version + 1
                /\ NotUpdatable(orders'[id]) = NotUpdatable(orders[id])
                /\ \E q \in Opt(Quantities), n \in Opt({<<"note of", r>>}) :
                    /\ q # {} \/ n # {}
                    /\ orders'[id].quantity_cases =
                         IF q = {} THEN orders[id].quantity_cases ELSE Some(q)
                    /\ orders'[id].notes =
                         IF n = {} THEN orders[id].notes ELSE Text(Some(n))
            /\ response' # 200 => orders' = orders
            /\ (\/ id \notin DOMAIN orders
                \/ orders[id].order_status \in {"fulfilled", "cancelled"})
                    => response' \in {400, 404, 500}
      ]_vars

\* update_order has just answered 200 for a pending order: only it gives
\* notes to an order that is in pending_review at version 2
C16_Witness ==
    /\ response = 200
    /\ \E o \in DOMAIN orders :
        /\ orders[o].order_status = "pending_review"
        /\ orders[o].version = 2
        /\ ~orders[o].notes.null

\* C17: when update_order changes the quantity of an approved order from q
\* to q', reserved_cases of the source store's record changes by q' - q in
\* the same step.
C17_UpdateAdjustsReservation ==
    [][\A r \in Reqs :
        (/\ Runs(r, "update_order")
         /\ response' = 200
         /\ req[r].id \in DOMAIN orders
         /\ orders[req[r].id].order_status = "approved"
         /\ orders'[req[r].id].quantity_cases # orders[req[r].id].quantity_cases)
            => \A i \in SourceInv(orders[req[r].id]) :
                  inventory'[i].reserved_cases
                    = inventory[i].reserved_cases
                        + orders'[req[r].id].quantity_cases
                        - orders[req[r].id].quantity_cases
      ]_vars

\* t ends with the reason r
EndsWith(t, r) == Len(t) >= 1 /\ t[Len(t)] = r

\* p is a prefix of t
IsPrefix(p, t) == Len(p) <= Len(t) /\ SubSeq(t, 1, Len(p)) = p

\* C18: a successful cancel_order on an order in pending_review or approved
\* sets its status to cancelled, raises its version by 1 and yields notes
\* that contain the reason and keep the previous notes, when there were any,
\* as a prefix; it changes no inventory record.
C18_CancelWithReason ==
    [][\A r \in Reqs :
        (Runs(r, "cancel_order") /\ response' = 200) =>
            LET id == req[r].id IN
            /\ id \in DOMAIN orders
            /\ orders[id].order_status \in {"pending_review", "approved"}
            /\ orders'[id].order_status = "cancelled"
            /\ orders'[id].version = orders[id].version + 1
            /\ ~orders'[id].notes.null
            /\ EndsWith(orders'[id].notes.text, "out of stock")
            /\ ~orders[id].notes.null
                => IsPrefix(orders[id].notes.text, orders'[id].notes.text)
            /\ inventory' = inventory
      ]_vars

\* an order that had notes was cancelled: its notes are the old notes
\* followed by the reason
C18_Witness ==
    \E o \in DOMAIN orders, r \in Reqs :
        /\ orders[o].order_status = "cancelled"
        /\ orders[o].version = 3
        /\ orders[o].notes =
             Text(<<"note of", r, "\n\nCancellation reason: ", "out of stock">>)

\* C19: cancel_order or update_order on an existing order that is fulfilled
\* or cancelled fails with an error of its own, which is not the error
\* returned for an order that does not exist (404 Not Found).
C19_TerminalIsNotNotFound ==
    [][\A r \in Reqs :
        (/\ Runs(r, "cancel_order") \/ Runs(r, "update_order")
         /\ req[r].id \in DOMAIN orders
         /\ orders[req[r].id].order_status \in {"fulfilled", "cancelled"})
            => response' \notin {200, 404}
      ]_vars

\* C20: an order that is approved, or that was fulfilled after an approval,
\* has approved_by set.
C20_ApproverRecorded ==
    \A o \in DOMAIN orders :
        (\/ orders[o].order_status = "approved"
         \/ orders[o].order_status = "fulfilled" /\ o \in DOMAIN approval)
            => orders[o].approved_by # NULL

(***************************************************************************)
(* User context and permissions: app/auth.py, app/middleware.py and the    *)
(* dependencies main.py gives to the routers.                              *)
(***************************************************************************)
\* a header or an email that is absent (None), and one that has a value
NoEmail == [null |-> TRUE, text |-> << >>]
Email(t) == [null |-> FALSE, text |-> t]

\* the suffix of the example admin check
AdminSuffix == "@your-company.com"

\* x-forwarded-user-email of the requests: absent, a user, an admin, and an
\* address that holds the admin suffix without ending in it
Emails ==
    {NoEmail, Email(<<"user", "@example.com">>), Email(<<"admin", AdminSuffix>>),
     Email(<<"eve", AdminSuffix, ".example.com">>)}

\* x-forwarded-access-token is present or not; x-forwarded-user-email
Headers == [token : BOOLEAN, email : Emails]

basic_permissions == {"read:stores", "read:inventory", "read:orders", "read:products"}
admin_permissions == {"write:stores", "write:inventory", "admin:users"}
Permissions == basic_permissions \cup admin_permissions \cup {"write:orders"}

\* the route whose dependencies main.py declares
StatusRoute == "PUT /orders/{order_id}/status"

\* the context of local development
LocalContext ==
    [present |-> TRUE, is_authenticated |-> FALSE,
     user_email |-> Email(<<"local-dev-user">>)]

\* DatabricksAuth.get_user_context(headers)
AuthGetUserContext(is_app, headers) ==
    IF ~is_app THEN NoContext
    ELSE IF headers.token
        THEN [present |-> TRUE, is_authenticated |-> TRUE, user_email |-> headers.email]
    ELSE NoContext

\* DatabricksUserMiddleware.get_user_context(request)
MiddlewareGetUserContext(is_app, headers) ==
    IF is_app
        THEN LET ctx == AuthGetUserContext(is_app, headers)
             IN IF ctx.present /\ ctx.is_authenticated THEN ctx ELSE NoContext
        ELSE LocalContext

\* DatabricksUserMiddleware.require_user_auth(user_context): the status it
\* raises (0: none) and the context it returns
require_user_auth(is_app, ctx) ==
    IF ~ctx.present \/ ~ctx.is_authenticated
        THEN IF is_app
                THEN [status |-> 401, context |-> ctx]
                ELSE [status |-> 0, context |-> LocalContext]
        ELSE [status |-> 0, context |-> ctx]

\* a variant that skips the authentication test: C30 must tell it from the code
check_user_permission_unauthenticated(ctx, required_permission) ==
    IF required_permission \in basic_permissions THEN "True" ELSE "False"

\* DatabricksUserMiddleware.check_user_permission(user_context, permission):
\* True, False, or the AttributeError of None.endswith
check_user_permission(ctx, required_permission) ==
    IF ~ctx.is_authenticated THEN "False"
    ELSE IF required_permission \in basic_permissions THEN "True"
    ELSE IF required_permission \in admin_permissions
        THEN IF ctx.user_email.null THEN "AttributeError"
             ELSE IF EndsWith(ctx.user_email.text, AdminSuffix) THEN "True"
             ELSE "False"
    ELSE "False"

\* what the steps of the dependencies leave alone
authFrame == <<inventory, orderSeq, req, approval, autoIds, abortedIds, poolVars, queryVars, retryVars, lockVars, populateVars>>

\* a request arrives: for a route that depends on require_permission(p), or
\* for the status route of the orders router
HttpArrive ==
    /\ http.pc \in {"idle", "done"}
    /\ \E target \in Permissions \cup {StatusRoute}, headers \in Headers :
        /\ target = StatusRoute => clock <= MaxClock
        /\ http' = [pc |-> "get_user_context", target |-> target, headers |-> headers]
    /\ user_context' = NoContext
    /\ response' = 0
    /\ UNCHANGED <<is_databricks_app, orders, clock, authFrame>>

\* get_current_user: the first step of require_authenticated_user
GetCurrentUser ==
    /\ http.pc = "get_user_context"
    /\ http.target \in Permissions
    /\ user_context' = MiddlewareGetUserContext(is_databricks_app, http.headers)
    /\ http' = [http EXCEPT !.pc = "require_user_auth"]
    /\ response' = 0
    /\ UNCHANGED <<is_databricks_app, orders, clock, authFrame>>

\* require_authenticated_user: 401, or the context to check
RequireAuthenticatedUser ==
    /\ http.pc = "require_user_auth"
    /\ LET result == require_user_auth(is_databricks_app, user_context)
       IN IF result.status # 0
          THEN /\ response' = result.status
               /\ http' = [http EXCEPT !.pc = "done"]
               /\ user_context' = user_context
          ELSE /\ response' = 0
               /\ http' = [http EXCEPT !.pc = "check_user_permission"]
               /\ user_context' = result.context
    /\ UNCHANGED <<is_databricks_app, orders, clock, authFrame>>

\* permission_dependency: 403 unless the check grants the permission (200:
\* the request is admitted); an exception of the check is a 500
PermissionDependency ==
    /\ http.pc = "check_user_permission"
    /\ LET granted == check_user_permission(user_context, http.target)
       IN response' = IF granted = "True" THEN 200
                      ELSE IF granted = "False" THEN 403
                      ELSE 500
    /\ http' = [http EXCEPT !.pc = "done"]
    /\ UNCHANGED <<is_databricks_app, user_context, orders, clock, authFrame>>

\* main.get_user_context, the dependency of every router: it returns the
\* context or None and raises nothing
RouterGetUserContext ==
    /\ http.pc = "get_user_context"
    /\ http.target = StatusRoute
    /\ user_context' = AuthGetUserContext(is_databricks_app, http.headers)
    /\ http' = [http EXCEPT !.pc = "handler"]
    /\ response' = 0
    /\ UNCHANGED <<is_databricks_app, orders, clock, authFrame>>

\* update_order_status(order_id, "approved", approved_by) for the order of
\* this specification; the handler has no parameter for the user context
ApproveHandler ==
    /\ http.pc = "handler"
    /\ \E id \in DOMAIN orders, approved_by \in {NULL, RegionalManager} :
        /\ StatusUpdateWhere(orders[id])
        /\ orders' = CursorExit(orders,
                        [orders EXCEPT ![id] =
                            StatusUpdateRow(orders[id], "approved", approved_by, clock)],
                        FALSE)
    /\ clock' = clock + 1
    /\ response' = 200
    /\ http' = [http EXCEPT !.pc = "done"]
    /\ UNCHANGED <<is_databricks_app, user_context, authFrame>>

\* one order has been created by a Create without order_number; the
\* application runs in Databricks Apps or in local development
AuthInit ==
    /\ orders = OneRow(1, NewOrderRow(FormatOrderNumber(1), RetailStore, Product, 1,
                                      StoreManager, NULL, 1))
    /\ inventory = <<InventoryRow(Product, HQ, HQStock),
                     InventoryRow(Product, RetailStore, StoreStock)>>
    /\ orderSeq = 2
    /\ clock = 2
    /\ req = [r \in Reqs |-> IdleReq]
    /\ response = 200
    /\ approval = NoRows
    /\ autoIds = {1}
    /\ abortedIds = {}
    /\ is_databricks_app \in BOOLEAN
    /\ http = IdleHttp
    /\ user_context = NoContext
    /\ PoolIdle
    /\ QueryIdle
    /\ RetryIdle
    /\ LockIdle
    /\ PopulateIdle

AuthNext ==
    \/ HttpArrive
    \/ GetCurrentUser
    \/ RequireAuthenticatedUser
    \/ PermissionDependency
    \/ RouterGetUserContext
    \/ ApproveHandler

AuthSpec == AuthInit /\ [][AuthNext]_<<vars, otherVars>>

\* C21: an Approve request whose caller has no user context, or an
\* unauthenticated one, is rejected and leaves the order unchanged.
C21_ApproveNeedsPermission ==
    [][(/\ http.pc = "handler"
        /\ http'.pc = "done"
        /\ ~user_context.present \/ ~user_context.is_authenticated)
            => (response' # 200 /\ orders' = orders)
      ]_<<vars, authVars>>

\* C30: require_permission(p) admits a request only if the user context is
\* authenticated and p is a basic read permission, or an admin permission
\* with an email that ends in the admin suffix; an unauthenticated context
\* (the local fallback included) gets 403; an unknown permission is always
\* rejected, with 403 once a context is there; a missing context in the
\* Databricks Apps environment gets 401.
C30_RequirePermission ==
    (http.pc = "done" /\ http.target \in Permissions) =>
        /\ response \in {200, 401, 403, 500}
        /\ response = 200 =>
            /\ user_context.is_authenticated
            /\ is_databricks_app /\ http.headers.token
            /\ \/ http.target \in basic_permissions
               \/ /\ http.target \in admin_permissions
                  /\ user_context.user_email = Email(<<"admin", AdminSuffix>>)
        /\ (user_context.present /\ ~user_context.is_authenticated) => response = 403
        /\ http.target \notin basic_permissions \cup admin_permissions =>
            /\ response \in {401, 403}
            /\ user_context.present => response = 403
        /\ (is_databricks_app /\ ~user_context.present) => response = 401
        /\ response = 401 => (is_databricks_app /\ ~http.headers.token)

\* an admin was admitted for an admin permission
C30_Witness ==
    /\ http.pc = "done"
    /\ http.target = "admin:users"
    /\ response = 200
    /\ user_context.user_email = Email(<<"admin", AdminSuffix>>)

(***************************************************************************)
(* app/database/connection.py: get_db_connection and get_db_cursor, the    *)
(* context managers every handler runs its statements in.                  *)
(***************************************************************************)
\* a variant of the finally clause that keeps the connection: C22 must tell
\* it from the code
ConnectionFinallyKeeps(pool, connection) == pool

\* get_db_connection, finally: connection_pool.putconn(connection)
ConnectionFinally(pool, connection) == pool \cup {connection}

\* connection.commit() and connection.rollback() end the transaction
EndTransaction(t, connection) == [t EXCEPT ![connection] = "idle"]

poolFrame == <<vars, authVars, queryVars, retryVars, lockVars, populateVars>>

\* connection_pool.getconn(): a connection, or PoolError when none is left
\* (connection stays None: nothing to roll back, nothing to return)
GetConn(c) ==
    /\ session[c].pc = "idle"
    /\ IF free = {}
       THEN UNCHANGED <<free, session>>
       ELSE \E k \in free :
            /\ free' = free \ {k}
            /\ session' = [session EXCEPT ![c] =
                              [pc |-> "cursor", connection |-> k, raised |-> FALSE]]
    /\ UNCHANGED <<txn, poolFrame>>

\* the body of "with get_db_cursor() as cursor": statements run in a
\* transaction; the body ends normally, raises an HTTPException, or a
\* statement fails in the database
HandlerBody(c) ==
    /\ session[c].pc = "cursor"
    /\ \E outcome \in {"return", "HTTPException", "DatabaseError"} :
        /\ txn' = [txn EXCEPT ![session[c].connection] =
                      IF outcome = "DatabaseError" THEN "failed" ELSE "active"]
        /\ session' = [session EXCEPT ![c].pc = "cursor_exit",
                                      ![c].raised = outcome # "return"]
    /\ UNCHANGED <<free, poolFrame>>

\* get_db_cursor after the yield: commit, or on an exception (of the body or
\* of the commit) rollback and raise again; finally cursor.close()
CursorExitStep(c) ==
    /\ session[c].pc = "cursor_exit"
    /\ \E commit_fails \in BOOLEAN :
        /\ session[c].raised => ~commit_fails
        /\ txn' = EndTransaction(txn, session[c].connection)
        /\ session' = [session EXCEPT ![c].pc = "connection_exit",
                                      ![c].raised = session[c].raised \/ commit_fails]
    /\ UNCHANGED <<free, poolFrame>>

\* get_db_connection after the yield: on an exception rollback and raise
\* again; finally putconn
ConnectionExit(c) ==
    /\ session[c].pc = "connection_exit"
    /\ txn' = IF session[c].raised
                THEN EndTransaction(txn, session[c].connection) ELSE txn
    /\ free' = ConnectionFinally(free, session[c].connection)
    /\ session' = [session EXCEPT ![c] = IdleSession]
    /\ UNCHANGED poolFrame

PoolNext ==
    \/ \E c \in Clients : GetConn(c)
    \/ \E c \in Clients : HandlerBody(c)
    \/ \E c \in Clients : CursorExitStep(c)
    \/ \E c \in Clients : ConnectionExit(c)

PoolSpec == Init /\ [][PoolNext]_<<vars, otherVars>>

\* the connections that clients hold
Held == {session[c].connection : c \in {d \in Clients : session[d].pc # "idle"}}

\* C22: every connection is either in the pool or held by exactly one request
\* in progress, so that when no request is in progress every connection is
\* back in the pool; a connection in the pool has no open transaction; and a
\* request that ends in an error has its transaction rolled back before its
\* connection is returned.
C22_ConnectionsAreReturned ==
    /\ [](/\ free \cup Held = Conns
          /\ free \cap Held = {}
          /\ \A c, d \in Clients :
                (c # d /\ session[c].pc # "idle" /\ session[d].pc # "idle")
                    => session[c].connection # session[d].connection
          /\ (\A c \in Clients : session[c].pc = "idle") => free = Conns
          /\ \A k \in free : txn[k] = "idle")
    /\ [][\A c \in Clients :
            (session[c].pc = "connection_exit" /\ session'[c].pc = "idle")
                => /\ session[c].connection \in free'
                   /\ session[c].raised => txn[session[c].connection] = "idle"
         ]_<<vars, otherVars>>

\* two requests hold the two connections, one of them after an error whose
\* transaction is already rolled back, and a third request finds the pool empty
C22_Witness ==
    /\ free = {}
    /\ \E c, d \in Clients :
        /\ session[c].pc = "connection_exit"
        /\ session[c].raised
        /\ txn[session[c].connection] = "idle"
        /\ session[d].pc = "cursor_exit"
        /\ ~session[d].raised

(***************************************************************************)
(* app/routers/orders.py, the read side: GET /orders and                   *)
(* GET /orders/status/summary.  Here the clock counts half days, so that   *)
(* a timestamp has a date part and a time of day.                          *)
(***************************************************************************)
\* the days the orders and the requests speak of
MaxDay == 3
Days == 0..MaxDay
Timestamps == 0..(2 * MaxDay + 1)

\* INTERVAL '7 days' of the as_of_date condition
GraceDays == 7
\* INTERVAL '2 days' of the expired SLA condition
SlaDays == 2

\* DATE(timestamp)
DATE(t) == t \div 2
\* a number of days as a difference of timestamps
Interval(days) == 2 * days

\* DATE(o.order_date) <= DATE(as_of_date) + INTERVAL '7 days', or
\* DATE(o.order_date) <= CURRENT_DATE
DateCondition(row, as_of_date, now) ==
    IF as_of_date # {}
        THEN DATE(row.order_date) <= Some(as_of_date) + GraceDays
        ELSE DATE(row.order_date) <= DATE(now)

\* o.order_status = 'pending_review' and the order date more than two days
\* before as_of_date, or before NOW()
ExpiredSlaCondition(row, as_of_date, now) ==
    /\ row.order_status = "pending_review"
    /\ IF as_of_date # {}
        THEN DATE(row.order_date) < Some(as_of_date) - SlaDays
        ELSE row.order_date < now - Interval(SlaDays)

\* a variant that applies the status filter as well: C24 must tell it from
\* the code
StatusConditionKeepsFilter(row, expired_sla_only, status, as_of_date, now) ==
    /\ expired_sla_only => ExpiredSlaCondition(row, as_of_date, now)
    /\ (status # {} /\ Some(status) # "all") => row.order_status = Some(status)

\* get_orders: expired_sla_only takes precedence over the status filter
StatusCondition(row, expired_sla_only, status, as_of_date, now) ==
    IF expired_sla_only
        THEN ExpiredSlaCondition(row, as_of_date, now)
        ELSE (status # {} /\ Some(status) # "all") => row.order_status = Some(status)

\* DATE(o.order_date) >= date_from and DATE(o.order_date) <= date_to
RangeCondition(row, date_from, date_to) ==
    /\ date_from # {} => DATE(row.order_date) >= Some(date_from)
    /\ date_to # {} => DATE(row.order_date) <= Some(date_to)

RECURSIVE SumCases(_, _)
\* SUM(o.quantity_cases) over the rows with the given ids
SumCases(table, ids) ==
    IF ids = {} THEN 0
    ELSE LET i == CHOOSE j \in ids : TRUE
         IN table[i].quantity_cases + SumCases(table, ids \ {i})

queryFrame == <<inventory, req, response, approval, autoIds, abortedIds, authVars, poolVars, retryVars, lockVars, populateVars>>

\* time passes
Tick ==
    /\ listing = NoListing
    /\ clock + 1 \in Timestamps
    /\ clock' = clock + 1
    /\ UNCHANGED <<orders, orderSeq, listing, queryFrame>>

\* batch_insert_orders_with_retry: the demo data's INSERT of an order with
\* the status and the order date it was generated with
InsertOrder ==
    /\ listing = NoListing
    /\ orderSeq <= 2
    /\ \E order_status \in {"pending_review", "approved"}, order_date \in Timestamps :
        orders' = orders @@ OneRow(orderSeq,
                     [NewOrderRow(FormatOrderNumber(orderSeq), RetailStore, Product, 1,
                                  StoreManager, NULL, order_date)
                         EXCEPT !.order_status = order_status])
    /\ orderSeq' = orderSeq + 1
    /\ UNCHANGED <<clock, listing, queryFrame>>

\* get_orders, with a page that holds every row selected
GetOrders ==
    /\ listing = NoListing
    /\ \E as_of_date \in Opt(Days), expired_sla_only \in BOOLEAN,
          status \in Opt({"all", "pending_review", "approved"}),
          date_to \in Opt({MaxDay - 1}) :
        LET data == {o \in DOMAIN orders :
                        /\ DateCondition(orders[o], as_of_date, clock)
                        /\ StatusCondition(orders[o], expired_sla_only, status,
                                           as_of_date, clock)
                        /\ RangeCondition(orders[o], {}, date_to)}
        IN listing' = [op |-> "get_orders", as_of_date |-> as_of_date,
                       expired_sla_only |-> expired_sla_only, status |-> status,
                       date_to |-> date_to,
                       data |-> data, total |-> Cardinality(data)]
    /\ UNCHANGED <<orders, orderSeq, clock, queryFrame>>

\* get_order_status_summary
GetOrderStatusSummary ==
    /\ listing = NoListing
    /\ \E as_of_date \in Opt(Days), date_to \in Opt({MaxDay - 1}) :
        LET rows == {o \in DOMAIN orders :
                        /\ DateCondition(orders[o], as_of_date, clock)
                        /\ RangeCondition(orders[o], {}, date_to)}
            expired == {o \in rows : ExpiredSlaCondition(orders[o], as_of_date, clock)}
        IN listing' = [op |-> "get_order_status_summary", as_of_date |-> as_of_date,
                       date_to |-> date_to,
                       status_counts |->
                           [st \in valid_statuses |->
                               Cardinality({o \in rows : orders[o].order_status = st})],
                       expired_sla_count |-> Cardinality(expired),
                       total_cases |-> SumCases(orders, rows)]
    /\ UNCHANGED <<orders, orderSeq, clock, queryFrame>>

\* the response is sent; the handlers of a process run one after another
ReturnListing ==
    /\ listing # NoListing
    /\ listing' = NoListing
    /\ UNCHANGED <<orders, orderSeq, clock, queryFrame>>

QueryNext ==
    \/ ReturnListing
    \/ Tick
    \/ InsertOrder
    \/ GetOrders
    \/ GetOrderStatusSummary

QuerySpec == Init /\ [][QueryNext]_<<vars, otherVars>>

\* an order is visible as of a date when its order date is not after it; with
\* no date given, when its order date is not after today
VisibleAsOf(row, as_of_date, now) ==
    DATE(row.order_date) <= (IF as_of_date # {} THEN Some(as_of_date) ELSE DATE(now))

\* the other date filter of a read request
WithinRange(row, date_to) == date_to # {} => DATE(row.order_date) <= Some(date_to)

\* C23: List orders without a status filter returns exactly the orders whose
\* order date is not after as_of_date (not after the current date when no
\* as_of_date is given) and that pass the other filters, and the status
\* summary counts exactly those orders.
C23_VisibleUpToAsOfDate ==
    [][listing' # NoListing =>
        LET visible == {o \in DOMAIN orders :
                           /\ VisibleAsOf(orders[o], listing'.as_of_date, clock)
                           /\ WithinRange(orders[o], listing'.date_to)}
        IN /\ (listing'.op = "get_orders" /\ ~listing'.expired_sla_only
                    /\ listing'.status = {})
                => listing'.data = visible
           /\ listing'.op = "get_order_status_summary"
                => \A st \in valid_statuses :
                      listing'.status_counts[st] =
                          Cardinality({o \in visible : orders[o].order_status = st})
      ]_<<vars, otherVars>>

MAX_RETRIES == 3

\* for attempt in range(max_retries + 1)
AttemptRange(max_retries) == 0..max_retries

BatchOperations == {"batch_insert_orders_with_retry", "batch_update_inventory_with_retry"}

retryFrame == <<vars, authVars, poolVars, queryVars, lockVars, populateVars>>

\* a worker calls a batch operation; the loop starts with attempt 0
CallBatchOperation(w) ==
    /\ call[w].pc = "idle"
    /\ \E op \in BatchOperations :
        call' = [call EXCEPT ![w] = [NoCall EXCEPT !.op = op, !.pc = "try"]]
    /\ UNCHANGED retryFrame

\* the try block: execute_batch runs the statements in a transaction, and
\* they succeed, hit a deadlock, or fail otherwise
ExecuteBatchStatements(w) ==
    /\ call[w].pc = "try"
    /\ call[w].attempt \in AttemptRange(MAX_RETRIES)
    /\ \E outcome \in {"ok", "DeadlockDetected", "Exception"} :
        call' = [call EXCEPT ![w].pc = "executed", ![w].tries = @ + 1,
                             ![w].tx = "active", ![w].outcome = outcome]
    /\ UNCHANGED retryFrame

\* connection.commit() and return; or the except clauses: rollback, then
\* sleep and continue while attempt < max_retries, else raise
CommitOrExcept(w) ==
    /\ call[w].pc = "executed"
    /\ call' = [call EXCEPT ![w].tx = "idle",
                            ![w].pc =
                                IF call[w].outcome = "ok" THEN "returned"
                                ELSE IF /\ call[w].outcome = "DeadlockDetected"
                                        /\ call[w].attempt < MAX_RETRIES
                                    THEN "sleep"
                                ELSE "raised"]
    /\ UNCHANGED retryFrame

\* time.sleep(...) is over: continue with the next attempt
Backoff(w) ==
    /\ call[w].pc = "sleep"
    /\ call' = [call EXCEPT ![w].pc = "try", ![w].attempt = @ + 1]
    /\ UNCHANGED retryFrame

\* the caller has the result or the exception
BatchOperationDone(w) ==
    /\ call[w].pc \in {"returned", "raised"}
    /\ call' = [call EXCEPT ![w] = NoCall]
    /\ UNCHANGED retryFrame

RetryNext ==
    \/ \E w \in Workers : CallBatchOperation(w)
    \/ \E w \in Workers : ExecuteBatchStatements(w)
    \/ \E w \in Workers : CommitOrExcept(w)
    \/ \E w \in Workers : Backoff(w)
    \/ \E w \in Workers : BatchOperationDone(w)

RetrySpec == Init /\ [][RetryNext]_<<vars, otherVars>>

\* C25: a batch operation is attempted at most 3 times in total; every
\* attempt starts with the previous one rolled back; an operation that kept
\* hitting a deadlock raises after its third attempt; only a deadlock is
\* followed by another attempt.
C25_AtMostThreeAttempts ==
    \A w \in Workers :
        /\ call[w].tries <= 3
        /\ call[w].pc \in {"try", "sleep", "raised"} => call[w].tx = "idle"
        /\ (call[w].pc = "raised" /\ call[w].outcome = "DeadlockDetected")
                => call[w].tries = 3
        /\ call[w].pc = "sleep" => call[w].outcome = "DeadlockDetected"

(***************************************************************************)
(* database/demo_setup.py: concurrent calls of                             *)
(* batch_update_inventory_with_retry and the row locks of their UPDATEs.   *)
(***************************************************************************)
\* the statements of one attempt, in the order execute_batch sends them: the
\* quantity updates in key order, then the reserved updates in key order
StatementOrder(inventory_updates) ==
    LET sorted == SortedByKey(inventory_updates)
    IN SelectSeq(sorted, LAMBDA u : u.type = "quantity")
          \o SelectSeq(sorted, LAMBDA u : u.type = "reserved")

\* the updates a caller may pass: of either type, on any inventory row
InventoryUpdate ==
    [type : {"quantity", "reserved"}, change : {1}, product_id : Products,
     store_id : Stores]

InventoryUpdateLists ==
    {<<u>> : u \in InventoryUpdate} \cup {<<u, v>> : u, v \in InventoryUpdate}

Key(u) == <<u.product_id, u.store_id>>

\* the rows a worker's transaction has locked
LockedBy(w) == {k \in DOMAIN row_lock : row_lock[k] = w}

\* the worker's next UPDATE waits for a row another transaction has locked
WaitsFor(w, v) ==
    /\ updater[w].pc = "run"
    /\ updater[w].next <= Len(updater[w].statements)
    /\ row_lock[Key(updater[w].statements[updater[w].next])] = v

\* rollback and commit release the transaction's row locks
ReleaseLocks(w) == [k \in DOMAIN row_lock |-> IF row_lock[k] = w THEN "none" ELSE row_lock[k]]

lockFrame == <<orders, orderSeq, clock, req, response, approval, autoIds, abortedIds, authVars, poolVars, queryVars, retryVars, populateVars>>

\* a worker calls batch_update_inventory_with_retry
BatchUpdateCall(w) ==
    /\ updater[w].pc = "idle"
    /\ \E inventory_updates \in InventoryUpdateLists :
        updater' = [updater EXCEPT ![w] =
                       [NoUpdater EXCEPT !.pc = "run",
                                         !.statements = StatementOrder(inventory_updates)]]
    /\ UNCHANGED <<row_lock, inventory, lockFrame>>

\* the next UPDATE locks its row, once no other transaction holds it
LockRow(w) ==
    /\ updater[w].pc = "run"
    /\ updater[w].next <= Len(updater[w].statements)
    /\ LET k == Key(updater[w].statements[updater[w].next])
       IN /\ row_lock[k] \in {"none", w}
          /\ row_lock' = [row_lock EXCEPT ![k] = w]
    /\ updater' = [updater EXCEPT ![w].next = @ + 1]
    /\ UNCHANGED <<inventory, lockFrame>>

\* connection.commit(): the updates take effect and the locks are released
CommitUpdates(w) ==
    /\ updater[w].pc = "run"
    /\ updater[w].next > Len(updater[w].statements)
    /\ inventory' = ExecuteBatch(inventory, updater[w].statements)
    /\ row_lock' = ReleaseLocks(w)
    /\ updater' = [updater EXCEPT ![w].pc = "returned"]
    /\ UNCHANGED lockFrame

\* the database finds two transactions waiting for each other and aborts
\* one: DeadlockDetected, rollback, and another attempt or the raise
DeadlockDetected(w) ==
    /\ \E v \in Workers \ {w} : WaitsFor(w, v) /\ WaitsFor(v, w)
    /\ row_lock' = ReleaseLocks(w)
    /\ updater' = [updater EXCEPT ![w] =
                      IF updater[w].attempt < MAX_RETRIES
                          THEN [@ EXCEPT !.next = 1, !.attempt = @ + 1]
                          ELSE [@ EXCEPT !.pc = "raised"]]
    /\ UNCHANGED <<inventory, lockFrame>>

LockNext ==
    \/ \E w \in Workers : BatchUpdateCall(w)
    \/ \E w \in Workers : LockRow(w)
    \/ \E w \in Workers : CommitUpdates(w)
    \/ \E w \in Workers : DeadlockDetected(w)

LockSpec == Init /\ [][LockNext]_<<vars, otherVars>>

\* the order of inventory keys: ascending (product_id, store_id)
KeyAtMost(j, k) == j[1] < k[1] \/ (j[1] = k[1] /\ j[2] <= k[2])

MaxCount == 3
MaxBatchSize == 2
\* the futures looked at
MaxFutures == 5

\* ThreadPoolExecutor(max_workers=MAX_WORKERS) and (max_workers=2)
MAX_WORKERS == 16
RetryWorkers == 2

\* a variant that numbers every batch of a status from the same counter: C29
\* must tell it from the code
BatchStartCounterOfStatus(order_counter, i) == order_counter

\* batch_start_counter = order_counter + i
BatchStartCounter(order_counter, i) == order_counter + i

\* len(order_dates[i : i + BATCH_SIZE])
BatchLength(count, i, batch_size) == IF count - i < batch_size THEN count - i ELSE batch_size

\* generate_order_batch: the order numbers of a batch, f"ORD{start_counter + i:06d}"
GeneratedNumbers(args) ==
    [j \in 1..args.size |-> FormatOrderNumber(args.start_counter + j - 1)]

\* executor.submit(process_order_batch_with_recovery, args)
Submitted(args, pass) ==
    [args |-> args, pass |-> pass, pc |-> "queued", numbers |-> << >>, inserted |-> {}]

populateFrame == <<req, response, approval, autoIds, abortedIds, authVars, poolVars, queryVars, retryVars, lockVars>>

\* for order_status, order_count in order_configs: a status with no orders is
\* skipped; else its dates are generated and its batches are submitted
NextStatus ==
    /\ main.pc = "status"
    /\ main.status_index <= Len(order_configs)
    /\ main' = IF order_count[order_configs[main.status_index]] = 0
                 THEN [main EXCEPT !.status_index = @ + 1]
                 ELSE [main EXCEPT !.pc = "batches", !.i = 0]
    /\ UNCHANGED <<order_count, BATCH_SIZE, futures, failed_batches>>
    /\ UNCHANGED <<orders, orderSeq, clock, inventory, populateFrame>>

\* for i in range(0, len(order_dates), BATCH_SIZE): submit a batch
SubmitBatch ==
    /\ main.pc = "batches"
    /\ LET order_status == order_configs[main.status_index]
       IN /\ main.i < order_count[order_status]
          /\ futures' = Append(futures,
                Submitted([order_status |-> order_status,
                           size |-> BatchLength(order_count[order_status], main.i,
                                                BATCH_SIZE),
                           start_counter |-> BatchStartCounter(main.order_counter, main.i)],
                          "first"))
    /\ main' = [main EXCEPT !.i = @ + BATCH_SIZE]
    /\ UNCHANGED <<order_count, BATCH_SIZE, failed_batches>>
    /\ UNCHANGED <<orders, orderSeq, clock, inventory, populateFrame>>

\* the batches of the status are submitted: order_counter += order_count
EndStatus ==
    /\ main.pc = "batches"
    /\ main.i >= order_count[order_configs[main.status_index]]
    /\ main' = [main EXCEPT !.pc = "status", !.status_index = @ + 1,
                            !.order_counter = @ + order_count[order_configs[main.status_index]]]
    /\ UNCHANGED <<order_count, BATCH_SIZE, futures, failed_batches>>
    /\ UNCHANGED <<orders, orderSeq, clock, inventory, populateFrame>>

\* the batches an executor is running
Running(pass) ==
    {t \in DOMAIN futures : futures[t].pass = pass /\ futures[t].pc \in {"generated", "inserted"}}

\* a worker takes the batch that has waited longest in the executor's queue
\* and generates its orders
GenerateOrderBatch(t) ==
    /\ futures[t].pc = "queued"
    /\ \A u \in 1..(t - 1) : futures[u].pass = futures[t].pass => futures[u].pc # "queued"
    /\ Cardinality(Running(futures[t].pass))
          < (IF futures[t].pass = "first" THEN MAX_WORKERS ELSE RetryWorkers)
    /\ futures' = [futures EXCEPT ![t].pc = "generated",
                                  ![t].numbers = GeneratedNumbers(futures[t].args)]
    /\ UNCHANGED <<order_count, BATCH_SIZE, main, failed_batches>>
    /\ UNCHANGED <<orders, orderSeq, clock, inventory, populateFrame>>

\* the rows of a batch, as generate_order_batch builds them
BatchRows(t, now) ==
    [j \in 1..Len(futures[t].numbers) |->
        [NewOrderRow(futures[t].numbers[j], RetailStore, Product, 1, StoreManager,
                     IF futures[t].args.order_status \in {"fulfilled", "approved"}
                         THEN RegionalManager ELSE NULL, now)
            EXCEPT !.order_status = futures[t].args.order_status]]

\* except Exception: the batch is appended to failed_batches
BatchFailed(t) ==
    /\ futures' = [futures EXCEPT ![t].pc = "failed"]
    /\ failed_batches' = Append(failed_batches, futures[t].args)

\* batch_insert_orders_with_retry, called by the worker: the rows are inserted
\* and committed; or the insert fails (an order number that exists already, a
\* deadlock after the last attempt, another error), is rolled back and raised.
\* A batch with no inventory updates is finished by a successful insert.
InsertBatch(t) ==
    /\ futures[t].pc = "generated"
    /\ \E ok \in BOOLEAN :
        /\ ok => \A j \in DOMAIN futures[t].numbers :
                     futures[t].numbers[j] \notin CommittedNumbers
        /\ IF ok
             THEN LET rows == BatchRows(t, clock)
                      ids == orderSeq..(orderSeq + Len(rows) - 1)
                  IN /\ orders' = [o \in DOMAIN orders \cup ids |->
                                      IF o \in ids THEN rows[o - orderSeq + 1]
                                      ELSE orders[o]]
                     /\ futures' = [futures EXCEPT
                           ![t].pc = IF futures[t].args.order_status
                                          \in {"fulfilled", "approved"}
                                        THEN "inserted" ELSE "succeeded",
                           ![t].inserted = ids]
                     /\ UNCHANGED failed_batches
             ELSE /\ BatchFailed(t)
                  /\ UNCHANGED orders
    /\ orderSeq' = orderSeq + Len(futures[t].numbers)
    /\ UNCHANGED <<order_count, BATCH_SIZE, main, clock, inventory, populateFrame>>

RECURSIVE BatchInventoryUpdates(_, _)
\* generate_order_batch: the inventory_updates of the first n orders of a batch
BatchInventoryUpdates(order_status, n) ==
    IF n = 0 THEN << >>
    ELSE BatchInventoryUpdates(order_status, n - 1)
            \o GeneratedInventoryUpdates(order_status, 1, Product, RetailStore)

\* batch_update_inventory_with_retry, called by the worker after the insert:
\* the updates are applied and committed, or they fail, are rolled back and
\* the error is raised
UpdateBatchInventory(t) ==
    /\ futures[t].pc = "inserted"
    /\ \E ok \in BOOLEAN :
        IF ok
          THEN /\ inventory' = batch_update_inventory(inventory,
                     BatchInventoryUpdates(futures[t].args.order_status,
                                           futures[t].args.size))
               /\ futures' = [futures EXCEPT ![t].pc = "succeeded"]
               /\ UNCHANGED failed_batches
          ELSE /\ BatchFailed(t)
               /\ UNCHANGED inventory
    /\ UNCHANGED <<order_count, BATCH_SIZE, main, orders, orderSeq, clock, populateFrame>>

Finished(pass) ==
    \A t \in DOMAIN futures :
        futures[t].pass = pass => futures[t].pc \in {"succeeded", "failed"}

\* the first executor is left when all its batches are done; then
\* "if failed_batches:" starts the retry pass
FirstPassDone ==
    /\ main.pc = "status"
    /\ main.status_index > Len(order_configs)
    /\ Finished("first")
    /\ main' = [main EXCEPT !.pc = IF failed_batches # << >> THEN "retry" ELSE "done",
                            !.retry_index = 1]
    /\ UNCHANGED <<order_count, BATCH_SIZE, futures, failed_batches>>
    /\ UNCHANGED <<orders, orderSeq, clock, inventory, populateFrame>>

\* for failed_batch in failed_batches: the next element of the list, as long
\* as it has one, is submitted to the retry executor
ResubmitFailedBatch ==
    /\ main.pc = "retry"
    /\ main.retry_index <= Len(failed_batches)
    /\ Len(futures) < MaxFutures
    /\ futures' = Append(futures, Submitted(failed_batches[main.retry_index], "retry"))
    /\ main' = [main EXCEPT !.retry_index = @ + 1]
    /\ UNCHANGED <<order_count, BATCH_SIZE, failed_batches>>
    /\ UNCHANGED <<orders, orderSeq, clock, inventory, populateFrame>>

\* the list has no next element: the loop is left
EndRetryLoop ==
    /\ main.pc = "retry"
    /\ main.retry_index > Len(failed_batches)
    /\ main' = [main EXCEPT !.pc = "retry_wait"]
    /\ UNCHANGED <<order_count, BATCH_SIZE, futures, failed_batches>>
    /\ UNCHANGED <<orders, orderSeq, clock, inventory, populateFrame>>

\* as_completed(retry_futures): all resubmitted batches are done
RetryPassDone ==
    /\ main.pc = "retry_wait"
    /\ Finished("retry")
    /\ main' = [main EXCEPT !.pc = "done"]
    /\ UNCHANGED <<order_count, BATCH_SIZE, futures, failed_batches>>
    /\ UNCHANGED <<orders, orderSeq, clock, inventory, populateFrame>>

\* the submission loop of the first pass, for any order counts and batch size
NumberingInit ==
    /\ StoreInit
    /\ AuthIdle /\ PoolIdle /\ QueryIdle /\ RetryIdle /\ LockIdle
    /\ order_count \in [valid_statuses -> 0..MaxCount]
    /\ BATCH_SIZE \in 1..MaxBatchSize
    /\ main = MainStart
    /\ futures = << >>
    /\ failed_batches = << >>

NumberingNext ==
    \/ NextStatus
    \/ SubmitBatch
    \/ EndStatus
    \/ \E t \in DOMAIN futures : GenerateOrderBatch(t)

NumberingSpec == NumberingInit /\ [][NumberingNext]_<<vars, otherVars>>

\* the counters a batch was given: start_counter .. start_counter + size - 1
CounterRange(args) == args.start_counter..(args.start_counter + args.size - 1)

\* the counter the batches of a status start from: one more than the number
\* of orders of the statuses before it
StatusBase(order_status) ==
    LET k == CHOOSE n \in DOMAIN order_configs : order_configs[n] = order_status
    IN 1 + SumCases([n \in 1..(k - 1) |-> [quantity_cases |-> order_count[order_configs[n]]]],
                    1..(k - 1))

\* C29: the order numbers generated for the submitted batches are pairwise
\* distinct, within a batch and across the batches of all statuses: each
\* batch has the counters from its start counter on, the batches of a status
\* start at the status's counter plus their offset, and the ranges of two
\* batches do not overlap.
C29_OrderNumbersDistinct ==
    \A t, u \in DOMAIN futures :
        /\ futures[t].args.start_counter >= StatusBase(futures[t].args.order_status)
        /\ futures[t].args.start_counter + futures[t].args.size
              <= StatusBase(futures[t].args.order_status)
                    + order_count[futures[t].args.order_status]
        /\ t # u => CounterRange(futures[t].args) \cap CounterRange(futures[u].args) = {}
        /\ futures[t].pc = "generated" =>
              /\ Len(futures[t].numbers) = futures[t].args.size
              /\ \A j \in DOMAIN futures[t].numbers :
                    DigitsValue(futures[t].numbers[j].digits)
                        = futures[t].args.start_counter + j - 1
              /\ \A j, k \in DOMAIN futures[t].numbers :
                    j # k => futures[t].numbers[j] # futures[t].numbers[k]
        /\ (t # u /\ futures[t].pc = "generated" /\ futures[u].pc = "generated") =>
              \A j \in DOMAIN futures[t].numbers, k \in DOMAIN futures[u].numbers :
                  futures[t].numbers[j] # futures[u].numbers[k]

\* two batches of one status and a batch of another status have generated
\* their numbers, one of the batches holding more than one order
C29_Witness ==
    \E t, u, v \in DOMAIN futures :
        /\ t # u
        /\ futures[t].args.order_status = futures[u].args.order_status
        /\ futures[v].args.order_status # futures[t].args.order_status
        /\ futures[t].args.size > 1
        /\ \A x \in {t, u, v} : futures[x].pc = "generated"

\* both passes of populate_dynamic_data, for one fulfilled and one approved
\* order in batches of one
RecoveryInit ==
    /\ StoreInit
    /\ AuthIdle /\ PoolIdle /\ QueryIdle /\ RetryIdle /\ LockIdle
    /\ order_count = [st \in valid_statuses |->
                         IF st \in {"fulfilled", "approved"} THEN 1 ELSE 0]
    /\ BATCH_SIZE = 1
    /\ main = MainStart
    /\ futures = << >>
    /\ failed_batches = << >>

RecoveryNext ==
    \/ NextStatus
    \/ SubmitBatch
    \/ EndStatus
    \/ \E t \in DOMAIN futures : GenerateOrderBatch(t)
    \/ \E t \in DOMAIN futures : InsertBatch(t)
    \/ \E t \in DOMAIN futures : UpdateBatchInventory(t)
    \/ FirstPassDone
    \/ ResubmitFailedBatch
    \/ EndRetryLoop
    \/ RetryPassDone

RecoverySpec == RecoveryInit /\ [][RecoveryNext]_<<vars, otherVars>>

\* C27: when a batch is reported failed and queued in failed_batches, the
\* orders it inserted are not in the table: its inserts and its inventory
\* updates are committed together or not at all.
C27_FailedBatchLeavesNoOrders ==
    [][\A t \in DOMAIN futures :
          (futures[t].pc # "failed" /\ futures'[t].pc = "failed")
              => /\ futures[t].inserted \cap DOMAIN orders' = {}
                 /\ inventory' = inventory
      ]_<<vars, otherVars>>

\* the batches the retry pass has submitted for a failed batch
Resubmissions(args) ==
    {t \in DOMAIN futures : futures[t].pass = "retry" /\ futures[t].args = args}

\* C28: a batch that failed in the first pass is resubmitted once in the
\* retry pass, never more, also when it fails again; when the retry pass is
\* over it has been resubmitted.
C28_ResubmittedExactlyOnce ==
    \A t \in DOMAIN futures :
        (futures[t].pass = "first" /\ futures[t].pc = "failed") =>
            /\ Cardinality(Resubmissions(futures[t].args)) <= 1
            /\ main.pc \in {"retry_wait", "done"}
                  => Cardinality(Resubmissions(futures[t].args)) = 1

====
